---- MODULE Spec2Model ----
(***************************************************************************)
(* Model of src/main.py: the transform pipeline built by pipe(), the six   *)
(* single-segment stages, the quadrant crop, and the run of main().        *)
(*                                                                         *)
(* Bounding-box coordinates are kept in HALF units (the integer h stands   *)
(* for the number h/2), so that int(...) in crop_keyframe is a real        *)
(* truncation; the derived centre x + width/2 is kept in QUARTER units.    *)
(* Raster indices are whole numbers.                                       *)
(***************************************************************************)
EXTENDS Integers, Sequences, FiniteSets, TLC

VARIABLES pc, video, utterances, functions, segments, i, j, k,
          calls, reads, err, frames_added, rendered, dumped,
          awaits, result, http

vars == <<pc, video, utterances, functions, segments, i, j, k,
          calls, reads, err, frames_added, rendered, dumped,
          awaits, result, http>>

(* ------------------------------ bounds --------------------------------- *)
MaxSegs == 2
MaxFrames == 2
MaxDim == 4
MaxOps == 3
MaxBatch == 3
MaxNameLen == 3

(* --------------------------- program constants ------------------------- *)
DEBUG == TRUE

(* ------------------------------ values --------------------------------- *)
Min(a, b) == IF a < b THEN a ELSE b
Max(a, b) == IF a > b THEN a ELSE b

Unwritten == -1
Constructor == 0

Fields == {"start", "end", "frames", "keyframe_index", "keyframe",
           "speaker_location", "speakers_bbox", "image"}

NoRaster == [src |-> <<0, 0>>, lo |-> <<0, 0>>, hi |-> <<0, 0>>, styled |-> FALSE]
NoBox == [x |-> 0, y |-> 0, width |-> 0, height |-> 0]
NoImageData == [image_data_matrix |-> NoRaster, image_subject |-> NoBox]
NoError == [kind |-> "none", op |-> 0, seg |-> 0]
NoHttp == [phase |-> "idle"]

\* shape of a raster (numpy .shape, first two axes)
Shape(img) == <<img.hi[1] - img.lo[1], img.hi[2] - img.lo[2]>>

\* Segment(**utterance_segment): start and end set, every other field unset
Segment(u) ==
  [start |-> u.start, end |-> u.end, frames |-> <<>>, keyframe_index |-> 0,
   keyframe |-> NoRaster, speaker_location |-> <<0, 0>>, speakers_bbox |-> NoBox,
   image |-> NoImageData,
   wr |-> [f \in Fields |-> IF f \in {"start", "end"} THEN Constructor ELSE Unwritten],
   ws |-> {}]

\* bookkeeping of an attribute assignment segment.f = ... by stage st: the
\* first writer of the field (wr) and the log of assignments by stages (ws)
Wrote(s, f, st) ==
  [s EXCEPT !.wr = [@ EXCEPT ![f] = IF @ = Unwritten THEN st ELSE @],
            !.ws = @ \cup {<<st, f>>}]

\* one attribute read: the field and the stage that first wrote it
R(s, f) == [field |-> f, writer |-> s.wr[f]]

Raise(s, kind, rd) == [seg |-> s, err |-> kind, reads |-> rd]
Return(s, rd) == [seg |-> s, err |-> "none", reads |-> rd]

\* reading an attribute nobody has assigned raises; the reads up to and
\* including the first unset one are the ones that happen
FirstUnset(s, needs) ==
  LET bad == {n \in 1..Len(needs) : s.wr[needs[n]] = Unwritten}
  IN IF bad = {} THEN 0 ELSE CHOOSE n \in bad : \A m \in bad : n <= m

Guarded(s, needs, body) ==
  LET n == FirstUnset(s, needs)
  IN IF n = 0 THEN body
     ELSE {Raise(s, "AttributeError", {R(s, needs[m]) : m \in 1..n})}

(* -------------------------- collaborators ------------------------------ *)
\* Video.get_frames(start, end): n full-size rasters of the video
FullRaster(idx, m, sh) ==
  [src |-> <<idx, m>>, lo |-> <<0, 0>>, hi |-> sh, styled |-> FALSE]

get_frames(idx, n) == [m \in 1..n |-> FullRaster(idx, m, video.shape)]

\* random.randint(a, b): both ends inclusive; an empty range raises ValueError
randint(a, b) == a..b

\* BBox.center, in quarter units: (x + width/2, y + height/2)
Center(b) == <<2 * b.x + b.width, 2 * b.y + b.height>>

\* boxes FaceDetector.find_speaker_face may return for a raster of shape sh:
\* the full frame, the leading unit cell, the unit cell at pixel (1, 1) where
\* the raster has one, the trailing unit cell, a sub-pixel box
DetectorBoxes(sh) ==
  {[x |-> 0, y |-> 0, width |-> 2 * sh[1], height |-> 2 * sh[2]],
   [x |-> 0, y |-> 0, width |-> 2, height |-> 2],
   [x |-> Min(2, 2 * sh[1] - 2), y |-> Min(2, 2 * sh[2] - 2), width |-> 2, height |-> 2],
   [x |-> 2 * sh[1] - 2, y |-> 2 * sh[2] - 2, width |-> 2, height |-> 2],
   [x |-> 1, y |-> 0, width |-> 1, height |-> 1]}

\* StyleTransfer()(image)
transfer_style(img) == [img EXCEPT !.styled = TRUE]

(* ------------------------------ stages --------------------------------- *)
attach_to_segment(segment, idx, st) ==
  Guarded(segment, <<"start", "end">>,
    {Return(Wrote([segment EXCEPT !.frames = get_frames(idx, n)], "frames", st),
            {R(segment, "start"), R(segment, "end")})
       : n \in 0..MaxFrames})

get_key_frame_index_offbyone(segment, st) ==
  Guarded(segment, <<"frames">>,
    LET choices == randint(0, Len(segment.frames))
        rd == {R(segment, "frames")}
    IN IF choices = {} THEN {Raise(segment, "ValueError", rd)}
       ELSE {Return(Wrote([segment EXCEPT !.keyframe_index = r], "keyframe_index", st), rd)
               : r \in choices})

get_key_frame_index_clamped(segment, st) ==
  Guarded(segment, <<"frames">>,
    LET choices == randint(0, Max(0, Len(segment.frames) - 1))
        rd == {R(segment, "frames")}
    IN IF choices = {} THEN {Raise(segment, "ValueError", rd)}
       ELSE {Return(Wrote([segment EXCEPT !.keyframe_index = r], "keyframe_index", st), rd)
               : r \in choices})

get_key_frame_index(segment, st) ==
  Guarded(segment, <<"frames">>,
    LET choices == randint(0, Len(segment.frames) - 1)
        rd == {R(segment, "frames")}
    IN IF choices = {} THEN {Raise(segment, "ValueError", rd)}
       ELSE {Return(Wrote([segment EXCEPT !.keyframe_index = r], "keyframe_index", st), rd)
               : r \in choices})

\* frames[keyframe_index]: 0-based, negative indices count from the end,
\* anything else raises IndexError
IndexInRange(n, idx) == -n <= idx /\ idx < n
Item(frames, idx) == frames[(IF idx < 0 THEN idx + Len(frames) ELSE idx) + 1]

detect_speaker(segment, st) ==
  Guarded(segment, <<"frames", "keyframe_index">>,
    LET rd0 == {R(segment, "frames"), R(segment, "keyframe_index")}
    IN IF ~IndexInRange(Len(segment.frames), segment.keyframe_index)
       THEN {Raise(segment, "IndexError", rd0)}
       ELSE
         LET s1 == Wrote([segment EXCEPT
                            !.keyframe = Item(segment.frames, segment.keyframe_index)],
                         "keyframe", st)
             rd == rd0 \cup {R(s1, "keyframe")}
         IN {Raise(s1, "SubjectNotFoundError", rd)}
            \cup
            {Return(Wrote(Wrote([s1 EXCEPT !.speaker_location = <<b.x, b.y>>,
                                           !.speakers_bbox = b],
                                "speaker_location", st), "speakers_bbox", st), rd)
               : b \in DetectorBoxes(Shape(s1.keyframe))})

\* int(v) of a number held in half units: truncation toward zero
ToInt(h) == IF h >= 0 THEN h \div 2 ELSE -((-h) \div 2)

\* a[:stop] and a[start:] on an axis of length n (Python slice clamping,
\* negative bounds count from the end): the kept index range [from, to)
SliceTo(n, stop) == <<0, IF stop >= 0 THEN Min(stop, n) ELSE Max(n + stop, 0)>>
SliceFrom(n, start) == <<IF start >= 0 THEN Min(start, n) ELSE Max(n + start, 0), n>>

\* one pass of the crop on an axis of length n: the kept range [from, to)
\* c4 is the bbox centre in quarter units, p and e the bbox start and extent
\* in half units
CropAxisGe(n, c4, p, e) ==
  IF c4 >= 4 * (n \div 2) THEN SliceTo(n, ToInt(p + e)) ELSE SliceFrom(n, ToInt(p))

CropAxisShort(n, c4, p, e) ==
  IF c4 > 4 * (n \div 2) THEN SliceTo(n, ToInt(p + e) - 1) ELSE SliceFrom(n, ToInt(p))

CropAxisInclusive(n, c4, p, e) ==
  IF c4 > 4 * (n \div 2) THEN SliceTo(n, ToInt(p + e) + 1) ELSE SliceFrom(n, ToInt(p))

CropAxis(n, c4, p, e) ==
  IF c4 > 4 * (n \div 2) THEN SliceTo(n, ToInt(p + e)) ELSE SliceFrom(n, ToInt(p))

\* a raster restricted to the range rg of axis ax
Restrict(img, ax, rg) ==
  [img EXCEPT !.lo = [@ EXCEPT ![ax] = img.lo[ax] + rg[1]],
              !.hi = [@ EXCEPT ![ax] = img.lo[ax] + rg[2]]]

CropMidlineOfFirstAxis(img, b) ==
  LET c == Center(b)
      h == Restrict(img, 1, CropAxis(Shape(img)[1], c[1], b.x, b.width))
  IN Restrict(h, 2, CropAxis(Shape(h)[1], c[2], b.y, b.height))

Crop(img, b) ==
  LET c == Center(b)
      h == Restrict(img, 1, CropAxis(Shape(img)[1], c[1], b.x, b.width))
  IN Restrict(h, 2, CropAxis(Shape(h)[2], c[2], b.y, b.height))

crop_keyframe(segment, st) ==
  Guarded(segment, <<"speakers_bbox", "keyframe">>,
    {Return(Wrote([segment EXCEPT
                     !.keyframe = Crop(segment.keyframe, segment.speakers_bbox)],
                  "keyframe", st),
            {R(segment, "speakers_bbox"), R(segment, "keyframe")})})

transfer_keyframe_style_uncropped(segment, st) ==
  Guarded(segment, <<"keyframe">>,
    {Raise(segment, "UpstreamServiceError", {R(segment, "keyframe")}),
     Return(Wrote([segment EXCEPT !.keyframe =
                     transfer_style(Item(segment.frames, segment.keyframe_index))],
                  "keyframe", st),
            {R(segment, "keyframe")})})

transfer_keyframe_style(segment, st) ==
  Guarded(segment, <<"keyframe">>,
    {Raise(segment, "UpstreamServiceError", {R(segment, "keyframe")}),
     Return(Wrote([segment EXCEPT !.keyframe = transfer_style(segment.keyframe)],
                  "keyframe", st),
            {R(segment, "keyframe")})})

convert_keyframe_to_obj_translated(segment, st) ==
  Guarded(segment, <<"keyframe", "speakers_bbox">>,
    {Return(Wrote([segment EXCEPT !.image =
                     [image_data_matrix |-> segment.keyframe,
                      image_subject |->
                        [segment.speakers_bbox EXCEPT
                           !.x = @ - 2 * segment.keyframe.lo[1],
                           !.y = @ - 2 * segment.keyframe.lo[2]]]], "image", st),
            {R(segment, "keyframe"), R(segment, "speakers_bbox")})})

convert_keyframe_to_obj(segment, st) ==
  Guarded(segment, <<"keyframe", "speakers_bbox">>,
    {Return(Wrote([segment EXCEPT !.image =
                     [image_data_matrix |-> segment.keyframe,
                      image_subject |-> segment.speakers_bbox]], "image", st),
            {R(segment, "keyframe"), R(segment, "speakers_bbox")})})

\* an arbitrary Callable[[Segment], None] handed to pipe: "f" may raise,
\* "g" never does; neither touches the segment
AbstractOps == {"f", "g"}

\* function(segment): the outcomes of calling functions[st] on segments[idx]
Apply(fn, segment, idx, st) ==
  CASE fn = "attach_frames" -> attach_to_segment(segment, idx, st)
    [] fn = "get_key_frame_index" -> get_key_frame_index(segment, st)
    [] fn = "detect_speaker" -> detect_speaker(segment, st)
    [] fn = "crop_keyframe" -> crop_keyframe(segment, st)
    [] fn = "transfer_keyframe_style" -> transfer_keyframe_style(segment, st)
    [] fn = "convert_keyframe_to_obj" -> convert_keyframe_to_obj(segment, st)
    [] fn = "f" -> {Return(segment, {}), Raise(segment, "OpError", {})}
    [] fn = "g" -> {Return(segment, {})}

(* ------------------------------ pipe ----------------------------------- *)
\* the two nested for loops of pipeline(): the (segment, function) position
\* of the first call and of the call after (s, f); <<M + 1, 1>> is loop exit
FirstPos(M, N) == IF M = 0 \/ N = 0 THEN <<M + 1, 1>> ELSE <<1, 1>>

NextPosStageMajor(s, f, M, N) ==
  IF s < M THEN <<s + 1, f>> ELSE IF f < N THEN <<1, f + 1>> ELSE <<M + 1, 1>>

NextPosSkip(s, f, M, N) ==
  IF f + 1 < N THEN <<s, f + 2>> ELSE IF s < M THEN <<s + 1, 1>> ELSE <<M + 1, 1>>

NextPos(s, f, M, N) ==
  IF f < N THEN <<s, f + 1>> ELSE IF s < M THEN <<s + 1, 1>> ELSE <<M + 1, 1>>

\* pipeline() has no try/except: an exception raised by function(segment)
\* leaves both loops
UnwindSwallow(e) == FALSE

Unwind(e) == e # "none"

\* main() calls pipeline(...) outside any try: the exception ends the run
MainOnRaiseCaught == "returned"

MainOnRaise == "raised"

\* the declared stages, main lines 92-99
MainFunctionsSwapped ==
  <<"attach_frames", "get_key_frame_index", "crop_keyframe", "detect_speaker",
    "transfer_keyframe_style", "convert_keyframe_to_obj">>

MainFunctions ==
  <<"attach_frames", "get_key_frame_index", "detect_speaker", "crop_keyframe",
    "transfer_keyframe_style", "convert_keyframe_to_obj">>

PipelineStep ==
  /\ pc = "pipeline"
  /\ i <= Len(segments)
  /\ \E o \in Apply(functions[j], segments[i], i, j) :
       LET nxt == NextPos(i, j, Len(segments), Len(functions))
           up == Unwind(o.err)
       IN /\ segments' = [segments EXCEPT ![i] = o.seg]
          /\ calls' = Append(calls, <<j, i>>)
          /\ reads' = reads \cup {[seg |-> i, stage |-> j, field |-> r.field,
                                   writer |-> r.writer] : r \in o.reads}
          /\ err' = IF o.err # "none" /\ err = NoError
                    THEN [kind |-> o.err, op |-> j, seg |-> i] ELSE err
          /\ pc' = IF up THEN MainOnRaise ELSE "pipeline"
          /\ i' = IF up THEN i ELSE nxt[1]
          /\ j' = IF up THEN j ELSE nxt[2]
  /\ UNCHANGED <<video, utterances, functions, k, frames_added, rendered, dumped,
                 awaits, result, http>>

\* return segments: the list the pipeline was given, as the stages left it
ReturnValueReversed(segs) == [n \in 1..Len(segs) |-> segs[Len(segs) + 1 - n]]

ReturnValue(segs) == segs

PipelineReturn ==
  /\ pc = "pipeline"
  /\ i > Len(segments)
  /\ pc' = "returned"
  /\ result' = ReturnValue(segments)
  /\ UNCHANGED <<video, utterances, functions, segments, i, j, k,
                 calls, reads, err, frames_added, rendered, dumped,
                 awaits, http>>

(* ------------------------------ main ----------------------------------- *)
\* split_utterances(await transcribe(video.audio)): M utterances, back to back
Utterances(M) == [n \in 1..M |-> [start |-> n - 1, end |-> n]]

\* the statement main resumes at once the awaited transcription has
\* returned: the DEBUG dump of lines 88-90, before pipe(...) of line 92
AfterAwaitSkipDump == "build"

AfterAwait == "dump"

\* await transcribe(video.audio): main is suspended until transcribe finishes
MainAwait ==
  /\ pc = "transcribe"
  /\ pc' = "awaiting"
  /\ awaits' = awaits + 1
  /\ UNCHANGED <<video, utterances, functions, segments, i, j, k, calls, reads,
                 err, frames_added, rendered, dumped, result, http>>

MainTranscribe ==
  /\ pc = "awaiting"
  /\ \/ \E M \in 0..MaxSegs : /\ utterances' = Utterances(M)
                              /\ pc' = AfterAwait
                              /\ err' = err
     \/ /\ utterances' = utterances
        /\ pc' = "raised"
        /\ err' = [kind |-> "UpstreamServiceError", op |-> 0, seg |-> 0]
  /\ UNCHANGED <<video, functions, segments, i, j, k, calls, reads,
                 frames_added, rendered, dumped,
                 awaits, result, http>>

MainDump ==
  /\ pc = "dump"
  /\ dumped' = DEBUG
  /\ pc' = "build"
  /\ UNCHANGED <<video, utterances, functions, segments, i, j, k, calls, reads,
                 err, frames_added, rendered,
                 awaits, result, http>>

MainBuild ==
  /\ pc = "build"
  /\ functions' = MainFunctions
  /\ segments' = [n \in 1..Len(utterances) |-> Segment(utterances[n])]
  /\ i' = FirstPos(Len(utterances), Len(MainFunctions))[1]
  /\ j' = FirstPos(Len(utterances), Len(MainFunctions))[2]
  /\ pc' = "pipeline"
  /\ UNCHANGED <<video, utterances, k, calls, reads, err, frames_added,
                 rendered, dumped,
                 awaits, result, http>>

\* for segment in segments: the item of the k-th iteration
LoopItemReversed(seq, n) == seq[Len(seq) + 1 - n]

LoopItem(seq, n) == seq[n]

\* main's local segments is the list the pipeline returned (line 100)
MainAddFrame ==
  /\ pc = "returned"
  /\ k <= Len(result)
  /\ frames_added' = Append(frames_added, LoopItem(result, k))
  /\ k' = k + 1
  /\ UNCHANGED <<pc, video, utterances, functions, segments, i, j, calls, reads,
                 err, rendered, dumped,
                 awaits, result, http>>

MainRender ==
  /\ pc = "returned"
  /\ k > Len(result)
  /\ rendered' = rendered + 1
  /\ pc' = "done"
  /\ UNCHANGED <<video, utterances, functions, segments, i, j, k, calls, reads,
                 err, frames_added, dumped,
                 awaits, result, http>>

\* raster sizes: every size up to MaxDim on each axis, and the sizes of the
\* video of a run of main (a single pixel, and the two largest unequal sizes)
Shapes == (1..MaxDim) \X (1..MaxDim)
VideoShapes == {<<1, 1>>, <<MaxDim - 1, MaxDim>>, <<MaxDim, MaxDim - 1>>}

Init ==
  /\ pc = "transcribe"
  /\ video \in {[shape |-> sh] : sh \in VideoShapes}
  /\ utterances = <<>>
  /\ functions = <<>>
  /\ segments = <<>>
  /\ i = 1
  /\ j = 1
  /\ k = 1
  /\ calls = <<>>
  /\ reads = {}
  /\ err = NoError
  /\ frames_added = <<>>
  /\ rendered = 0
  /\ dumped = FALSE
  /\ awaits = 0
  /\ result = <<>>
  /\ http = NoHttp

Next ==
  \/ MainAwait
  \/ MainTranscribe
  \/ MainDump
  \/ MainBuild
  \/ PipelineStep
  \/ PipelineReturn
  \/ MainAddFrame
  \/ MainRender

Spec == Init /\ [][Next]_vars

(* ------------------- pipe() on arbitrary operations -------------------- *)
\* pipe(f1..fN)(segments) for every list of up to MaxOps abstract operations
\* and up to MaxBatch freshly constructed segments
OpLists == UNION {[1..n -> AbstractOps] : n \in 0..MaxOps}

PipeInit ==
  /\ pc = "pipeline"
  /\ video = [shape |-> <<1, 1>>]
  /\ \E M \in 0..MaxBatch :
       /\ utterances = Utterances(M)
       /\ segments = [n \in 1..M |-> Segment(Utterances(M)[n])]
       /\ \E fs \in OpLists :
            /\ functions = fs
            /\ i = FirstPos(M, Len(fs))[1]
            /\ j = FirstPos(M, Len(fs))[2]
  /\ k = 1
  /\ calls = <<>>
  /\ reads = {}
  /\ err = NoError
  /\ frames_added = <<>>
  /\ rendered = 0
  /\ dumped = FALSE
  /\ awaits = 0
  /\ result = <<>>
  /\ http = NoHttp

PipeNext ==
  \/ PipelineStep
  \/ PipelineReturn

PipeSpec == PipeInit /\ [][PipeNext]_vars

(* ---------------- crop_keyframe on arbitrary boxes --------------------- *)
\* box coordinates and extents in half units: from half a pixel before the
\* raster (and non-positive extents) to half a pixel beyond it
BoxCoords == (-1)..(2 * MaxDim + 1)

Boxes == [x : BoxCoords, y : BoxCoords, width : BoxCoords, height : BoxCoords]

\* a segment as detect_speaker leaves it: one frame, chosen as keyframe,
\* with the detected box b
Detected(sh, b) ==
  [start |-> 0, end |-> 1, frames |-> <<FullRaster(1, 1, sh)>>, keyframe_index |-> 0,
   keyframe |-> FullRaster(1, 1, sh), speaker_location |-> <<b.x, b.y>>,
   speakers_bbox |-> b, image |-> NoImageData,
   wr |-> [f \in Fields |-> IF f = "image" THEN Unwritten ELSE Constructor],
   ws |-> {}]

\* crop_keyframe applied twice in a row to such a segment
CropInit ==
  /\ pc = "pipeline"
  /\ \E sh \in Shapes :
       /\ video = [shape |-> sh]
       /\ \E b \in Boxes : segments = <<Detected(sh, b)>>
  /\ utterances = Utterances(1)
  /\ functions = <<"crop_keyframe", "crop_keyframe">>
  /\ i = 1
  /\ j = 1
  /\ k = 1
  /\ calls = <<>>
  /\ reads = {}
  /\ err = NoError
  /\ frames_added = <<>>
  /\ rendered = 0
  /\ dumped = FALSE
  /\ awaits = 0
  /\ result = <<>>
  /\ http = NoHttp

CropNext ==
  \/ PipelineStep
  \/ PipelineReturn

CropSpec == CropInit /\ [][CropNext]_vars

(* --------------------------- /api/submit ------------------------------- *)
\* file names are sequences over a letter, the dot and the path separator
Chars == {"a", ".", "/"}
Filenames == UNION {[1..n -> Chars] : n \in 0..MaxNameLen}

\* werkzeug.utils.secure_filename: path separators become blanks, the
\* blank-separated words are joined with "_", characters outside
\* [A-Za-z0-9_.-] are dropped, leading and trailing dots and underscores are
\* stripped; the result may be empty
Blanked(name) == [n \in 1..Len(name) |-> IF name[n] = "/" THEN " " ELSE name[n]]

RECURSIVE JoinWords(_, _, _)
JoinWords(name, acc, gap) ==
  IF name = <<>> THEN acc
  ELSE IF Head(name) = " " THEN JoinWords(Tail(name), acc, acc # <<>>)
  ELSE JoinWords(Tail(name),
                 (IF gap THEN Append(acc, "_") ELSE acc) \o <<Head(name)>>, FALSE)

SafeChars == {"a", ".", "_", "-"}
AsciiStrip(name) == SelectSeq(name, LAMBDA ch : ch \in SafeChars)

RECURSIVE LStrip(_)
LStrip(name) ==
  IF name # <<>> /\ Head(name) \in {".", "_"} THEN LStrip(Tail(name)) ELSE name

RECURSIVE RStrip(_)
RStrip(name) ==
  IF name # <<>> /\ name[Len(name)] \in {".", "_"}
  THEN RStrip(SubSeq(name, 1, Len(name) - 1)) ELSE name

secure_filename(name) == RStrip(LStrip(AsciiStrip(JoinWords(Blanked(name), <<>>, FALSE))))

\* the upload folder: file name -> content; it exists and may hold a file
NoFiles == [n \in {} |-> "old"]
Folders == {NoFiles, [n \in {<<"a">>} |-> "old"]}

\* open(path.resolve(), "wb") and data.save(file): an empty sanitized name
\* makes path the upload folder itself, and opening a directory for writing
\* raises IsADirectoryError
Store(folder, name) ==
  IF name = <<>> THEN [error |-> "IsADirectoryError", folder |-> folder]
  ELSE [error |-> "none",
        folder |-> [n \in DOMAIN folder \cup {name} |->
                      IF n = name THEN "new" ELSE folder[n]]]

\* POST /api/submit, with the after_request hook
process_video ==
  /\ http.phase = "received"
  /\ http' =
       IF "file" \notin http.files
       THEN [http EXCEPT !.phase = "responded", !.status = 400,
                         !.connection = "close"]
       ELSE LET st == Store(http.uploads, secure_filename(http.filename))
            IN IF st.error # "none"
               THEN [http EXCEPT !.phase = "responded", !.status = 500,
                                 !.error = st.error, !.connection = "close"]
               ELSE [http EXCEPT !.phase = "responded", !.status = 302,
                                 !.location = "static/test.jpg",
                                 !.uploads = st.folder, !.connection = "close"]
  /\ UNCHANGED <<pc, video, utterances, functions, segments, i, j, k, calls, reads,
                 err, frames_added, rendered, dumped, awaits, result>>

SubmitInit ==
  /\ pc = "serving"
  /\ video = [shape |-> <<1, 1>>]
  /\ utterances = <<>>
  /\ functions = <<>>
  /\ segments = <<>>
  /\ i = 1
  /\ j = 1
  /\ k = 1
  /\ calls = <<>>
  /\ reads = {}
  /\ err = NoError
  /\ frames_added = <<>>
  /\ rendered = 0
  /\ dumped = FALSE
  /\ awaits = 0
  /\ result = <<>>
  /\ \E fs \in SUBSET {"file", "thumbnail"} : \E name \in Filenames :
       \E folder \in Folders :
         http = [phase |-> "received", files |-> fs, filename |-> name,
                 before |-> folder, uploads |-> folder, status |-> 0,
                 location |-> "", error |-> "none", connection |-> ""]

SubmitNext == process_video

SubmitSpec == SubmitInit /\ [][SubmitNext]_vars

(* ------------------------------ claims --------------------------------- *)
NOps == Len(functions)
NSegs == Len(segments)
OpOf(c) == c[1]
SegOf(c) == c[2]

\* C1: the pipeline runs segment-major: calls are ordered by segment first and
\* by declared operation second, and before any call on a segment every
\* operation has been applied to the previous segment and every earlier
\* operation to the same segment.
C1_SegmentMajor ==
  /\ \A a, b \in 1..Len(calls) :
       a < b => \/ SegOf(calls[a]) < SegOf(calls[b])
                \/ /\ SegOf(calls[a]) = SegOf(calls[b])
                   /\ OpOf(calls[a]) < OpOf(calls[b])
  /\ \A b \in 1..Len(calls) :
       /\ SegOf(calls[b]) > 1 =>
            \A o \in 1..NOps : \E a \in 1..(b - 1) : calls[a] = <<o, SegOf(calls[b]) - 1>>
       /\ \A o \in 1..(OpOf(calls[b]) - 1) :
            \E a \in 1..(b - 1) : calls[a] = <<o, SegOf(calls[b])>>

C1_Witness ==
  /\ pc = "returned"
  /\ NOps >= 2
  /\ NSegs >= 2
  /\ calls[NOps] = <<NOps, 1>>
  /\ calls[NOps + 1] = <<1, 2>>

\* C2: a pipeline that completes without failure has invoked each
\* (operation, segment) pair exactly once, N*M calls in all (none for an
\* empty segment sequence), and at no point has a pair been invoked twice.
C2_ExactlyOnce ==
  /\ \A a, b \in 1..Len(calls) : a # b => calls[a] # calls[b]
  /\ (pc = "returned" /\ err = NoError) =>
       /\ Len(calls) = NOps * NSegs
       /\ \A o \in 1..NOps : \A s \in 1..NSegs :
            Cardinality({b \in 1..Len(calls) : calls[b] = <<o, s>>}) = 1

C2_Witness ==
  /\ pc = "returned"
  /\ err = NoError
  /\ NOps = MaxOps
  /\ NSegs = MaxBatch
  /\ Len(calls) = MaxOps * MaxBatch

\* C3: once an operation has failed on a segment the failing call is the
\* last call the pipeline ever makes (no later operation on that segment, no
\* operation on a later segment) and the pipeline does not return.
C3_AbortOnFailure ==
  err # NoError =>
    /\ pc = "raised"
    /\ Len(calls) >= 1
    /\ calls[Len(calls)] = <<err.op, err.seg>>
    /\ \A b \in 1..Len(calls) :
         /\ SegOf(calls[b]) <= err.seg
         /\ SegOf(calls[b]) = err.seg => OpOf(calls[b]) <= err.op

C3_Witness ==
  /\ err # NoError
  /\ pc = "raised"
  /\ err.op > 1
  /\ err.op < NOps
  /\ err.seg > 1
  /\ err.seg < NSegs

\* C4: in a run of main, a stage failure on any segment means the layout
\* packer receives no add_frame call and render_frames_to_image is not invoked.
C4_NoImageOnFailure ==
  err.op >= 1 => (frames_added = <<>> /\ rendered = 0 /\ pc = "raised")

C4_Witness ==
  /\ err.op >= 3
  /\ err.seg = 2
  /\ pc = "raised"
  /\ segments[1].wr["image"] # Unwritten

\* C5 (as stated): every field a stage reads was written for that segment by
\* a strictly earlier stage.
C5_ReadsFromEarlierStage ==
  \A r \in reads : r.writer # Unwritten /\ r.writer < r.stage

\* C5 (amended): no stage ever reads an unset field; every field a stage reads
\* was written by a strictly earlier stage, except keyframe in detect_speaker,
\* which detect_speaker itself has assigned before it reads it.
C5_NoUnsetRead ==
  \A r \in reads :
    /\ r.writer # Unwritten
    /\ r.writer <= r.stage
    /\ r.writer = r.stage =>
         (r.field = "keyframe" /\ functions[r.stage] = "detect_speaker")

C5_Witness ==
  /\ pc = "done"
  /\ NSegs = MaxSegs
  /\ [seg |-> 2, stage |-> 3, field |-> "keyframe", writer |-> 3] \in reads
  /\ [seg |-> 2, stage |-> 4, field |-> "speakers_bbox", writer |-> 3] \in reads
  /\ [seg |-> 2, stage |-> 6, field |-> "keyframe", writer |-> 3] \in reads

\* C6: whichever value the random choice takes, a written keyframe_index
\* satisfies 0 <= keyframe_index < len(frames), and the read
\* frames[keyframe_index] in detect_speaker never goes out of range.
C6_KeyframeIndexInRange ==
  /\ \A s \in 1..NSegs :
       segments[s].wr["keyframe_index"] # Unwritten =>
         /\ 0 <= segments[s].keyframe_index
         /\ segments[s].keyframe_index < Len(segments[s].frames)
  /\ err.kind # "IndexError"

C6_Witness ==
  \E s \in 1..NSegs :
    /\ Len(segments[s].frames) = MaxFrames
    /\ segments[s].keyframe_index = MaxFrames - 1
    /\ segments[s].wr["keyframe"] # Unwritten
    /\ segments[s].keyframe = segments[s].frames[MaxFrames]

\* the state of a segment on which key-frame selection ran with zero frames
EmptySelected(s) ==
  /\ segments[s].wr["frames"] # Unwritten
  /\ Len(segments[s].frames) = 0
  /\ \E b \in 1..Len(calls) :
       calls[b] = <<2, s>> /\ functions[2] = "get_key_frame_index"

SelectionAborted(s) ==
  /\ segments[s].wr["keyframe_index"] = Unwritten
  /\ \A b \in 1..Len(calls) : SegOf(calls[b]) = s => OpOf(calls[b]) <= 2

CropSeg == segments[1]
CropBox == CropSeg.speakers_bbox
Original == CropSeg.frames[1]
AfterFirstCrop == Len(calls) = 1 /\ functions[1] = "crop_keyframe"
Start(b, ax) == IF ax = 1 THEN b.x ELSE b.y
Extent(b, ax) == IF ax = 1 THEN b.width ELSE b.height
OnMidline(b, sh, ax) == Center(b)[ax] = 4 * (sh[ax] \div 2)
InBounds(b, sh) ==
  \A ax \in {1, 2} :
    /\ Start(b, ax) >= 0
    /\ Extent(b, ax) > 0
    /\ Start(b, ax) + Extent(b, ax) <= 2 * sh[ax]

\* C8 (as stated): with the bbox centre exactly on the midline of an axis the
\* crop keeps that axis from index 0 up to the bbox end.
C8_TieKeepsToBoxEnd ==
  AfterFirstCrop =>
    \A ax \in {1, 2} :
      (InBounds(CropBox, Shape(Original)) /\ OnMidline(CropBox, Shape(Original), ax)) =>
        /\ CropSeg.keyframe.lo[ax] = 0
        /\ CropSeg.keyframe.hi[ax] = ToInt(Start(CropBox, ax) + Extent(CropBox, ax))

\* C8 (amended): with the bbox centre exactly on the midline of an axis the
\* strict > sends the crop to the other branch: for a bbox starting inside the
\* raster it keeps that axis from index int(bbox start) to the far edge.
C8_TieKeepsFromBoxStart ==
  AfterFirstCrop =>
    \A ax \in {1, 2} :
      (/\ OnMidline(CropBox, Shape(Original), ax)
       /\ Start(CropBox, ax) >= 0
       /\ Start(CropBox, ax) <= 2 * Shape(Original)[ax]) =>
        /\ CropSeg.keyframe.lo[ax] = ToInt(Start(CropBox, ax))
        /\ CropSeg.keyframe.hi[ax] = Shape(Original)[ax]

C8_Witness ==
  /\ AfterFirstCrop
  /\ InBounds(CropBox, Shape(Original))
  /\ OnMidline(CropBox, Shape(Original), 1)
  /\ OnMidline(CropBox, Shape(Original), 2)
  /\ CropSeg.keyframe.lo = <<1, 1>>
  /\ CropSeg.keyframe.hi = Shape(Original)

FullFrameBox(sh) == [x |-> 0, y |-> 0, width |-> 2 * sh[1], height |-> 2 * sh[2]]

\* C9: with a bbox spanning the full frame crop_keyframe returns the keyframe
\* unchanged, and so does a second application with the same bbox.
C9_FullFrameNoOp ==
  (functions[1] = "crop_keyframe" /\ CropBox = FullFrameBox(Shape(Original))) =>
    CropSeg.keyframe = Original

C9_Witness ==
  /\ functions[1] = "crop_keyframe"
  /\ Len(calls) = 2
  /\ CropBox = FullFrameBox(Shape(Original))
  /\ Shape(Original) = <<MaxDim, MaxDim - 1>>
  /\ CropSeg.keyframe = Original

\* C10: for a bbox of positive width and height lying within the frame the
\* crop output is, on each axis, at most the input size and at least 1.
C10_CropSizeBounds ==
  (AfterFirstCrop /\ InBounds(CropBox, Shape(Original))) =>
    \A ax \in {1, 2} :
      /\ Shape(CropSeg.keyframe)[ax] <= Shape(Original)[ax]
      /\ Shape(CropSeg.keyframe)[ax] >= 1

\* C11: a bbox with a non-positive width or height, a negative coordinate or
\* an end beyond the frame makes crop_keyframe fail with
\* InvalidBoundingBoxError and leaves the keyframe unchanged.
C11_InvalidBoxRejected ==
  (AfterFirstCrop /\ ~InBounds(CropBox, Shape(Original))) =>
    /\ err = [kind |-> "InvalidBoundingBoxError", op |-> 1, seg |-> 1]
    /\ CropSeg.keyframe = Original

\* the indices of axis ax of the original raster that the keyframe keeps
Kept(ax) == CropSeg.keyframe.lo[ax]..(CropSeg.keyframe.hi[ax] - 1)
Indices(ax) == 0..(Shape(Original)[ax] - 1)
PastMidline(b, sh, ax) == Center(b)[ax] > 4 * (sh[ax] \div 2)
BoxEnd(b, ax) == Start(b, ax) + Extent(b, ax)
NonNegative(b) == \A ax \in {1, 2} : Start(b, ax) >= 0 /\ BoxEnd(b, ax) >= 0

\* C13 (as stated): on each axis, past the midline the kept range runs from
\* index 0 up to and including index bbox start + extent; otherwise from
\* index bbox start to the last index.
C13_KeptRangeInclusive ==
  (AfterFirstCrop /\ InBounds(CropBox, Shape(Original))) =>
    \A ax \in {1, 2} :
      Kept(ax) = IF PastMidline(CropBox, Shape(Original), ax)
                 THEN {n \in Indices(ax) : n <= ToInt(BoxEnd(CropBox, ax))}
                 ELSE {n \in Indices(ax) : n >= ToInt(Start(CropBox, ax))}

\* C13 (amended): on each axis, for a bbox with non-negative coordinates, past
\* the midline the kept range runs from index 0 up to but not including index
\* int(bbox start + extent); otherwise from index int(bbox start) to the last
\* index.
C13_KeptRangeExclusive ==
  (AfterFirstCrop /\ NonNegative(CropBox)) =>
    \A ax \in {1, 2} :
      Kept(ax) = IF PastMidline(CropBox, Shape(Original), ax)
                 THEN {n \in Indices(ax) : n < ToInt(BoxEnd(CropBox, ax))}
                 ELSE {n \in Indices(ax) : n >= ToInt(Start(CropBox, ax))}

C13_Witness ==
  /\ AfterFirstCrop
  /\ InBounds(CropBox, Shape(Original))
  /\ PastMidline(CropBox, Shape(Original), 1)
  /\ ~PastMidline(CropBox, Shape(Original), 2)
  /\ Kept(1) = 0..(MaxDim - 2)
  /\ Shape(Original)[1] = MaxDim
  /\ Kept(2) = 1..(MaxDim - 1)

\* the crop with the vertical pass first and the horizontal pass second
CropVerticalFirst(img, b) ==
  LET c == Center(b)
      v == Restrict(img, 2, CropAxis(Shape(img)[2], c[2], b.y, b.height))
  IN Restrict(v, 1, CropAxis(Shape(v)[1], c[1], b.x, b.width))

\* C17: the two passes commute: crop_keyframe's result (horizontal pass, then
\* vertical pass on its output) equals the vertical pass followed by the
\* horizontal pass, and its second axis is cut at the midline of the original.
C17_PassesCommute ==
  AfterFirstCrop =>
    /\ CropSeg.keyframe = CropVerticalFirst(Original, CropBox)
    /\ Kept(2) = LET rg == CropAxis(Shape(Original)[2], Center(CropBox)[2],
                                    CropBox.y, CropBox.height)
                 IN rg[1]..(rg[2] - 1)

C17_Witness ==
  /\ AfterFirstCrop
  /\ InBounds(CropBox, Shape(Original))
  /\ Shape(Original) = <<MaxDim, MaxDim - 1>>
  /\ Shape(CropSeg.keyframe)[1] < MaxDim
  /\ Shape(CropSeg.keyframe)[2] < MaxDim - 1
  /\ CropSeg.keyframe = CropVerticalFirst(Original, CropBox)

\* C12: no Segment exists and no stage has run until the awaited
\* transcription has returned and the utterances are split; the debug dump is
\* written before the first stage runs; main suspends exactly once, at the
\* await of line 86.
C12_TranscribeFirst ==
  /\ (segments # <<>> \/ functions # <<>> \/ calls # <<>>) =>
       /\ awaits = 1
       /\ pc \notin {"transcribe", "awaiting"}
       /\ Len(segments) = Len(utterances)
  /\ calls # <<>> => dumped
  /\ awaits <= 1
  /\ pc # "transcribe" => awaits = 1

C12_Witness ==
  /\ pc = "pipeline"
  /\ Len(calls) = 1
  /\ NSegs = MaxSegs
  /\ dumped
  /\ awaits = 1

\* C14: add_frame is called only once every segment has completed every
\* stage, once per segment and in the order of the utterances; a successful
\* run ends with exactly one render_frames_to_image, after the last add_frame.
C14_PackerOrder ==
  /\ Len(frames_added) <= Len(utterances)
  /\ \A n \in 1..Len(frames_added) :
       /\ frames_added[n] = segments[n]
       /\ frames_added[n].start = utterances[n].start
       /\ frames_added[n].end = utterances[n].end
  /\ (frames_added # <<>> \/ rendered > 0) =>
       /\ err = NoError
       /\ Len(calls) = NOps * NSegs
       /\ \A n \in 1..NSegs : segments[n].wr["image"] # Unwritten
  /\ rendered <= 1
  /\ rendered = 1 => Len(frames_added) = Len(utterances)
  /\ pc = "done" <=> rendered = 1

C14_Witness ==
  /\ pc = "done"
  /\ rendered = 1
  /\ Len(utterances) = MaxSegs
  /\ Len(frames_added) = MaxSegs

\* the stages that assigned field f of segment n
Writers(n, f) == {w[1] : w \in {v \in segments[n].ws : v[2] = f}}

C15_State ==
  /\ \A n \in 1..NSegs :
       /\ segments[n].start = utterances[n].start
       /\ segments[n].end = utterances[n].end
       /\ Writers(n, "start") = {}
       /\ Writers(n, "end") = {}
       /\ Writers(n, "frames") \subseteq {1}
       /\ segments[n].wr["frames"] # Unwritten =>
            (Writers(n, "frames") = {1} /\ functions[1] = "attach_frames")
  /\ pc \in {"returned", "done"} => result = segments

C15_Step ==
  \A n \in 1..NSegs :
    /\ segments'[n].start = segments[n].start
    /\ segments'[n].end = segments[n].end
    /\ segments[n].wr["frames"] # Unwritten => segments'[n].frames = segments[n].frames

\* C15: no stage writes a segment's start or end; frames is written once, by
\* attach_frames, and no later step changes it; the pipeline returns the
\* sequence it was given, same segments in the same order.
C15_FrameEffect == []C15_State /\ [][C15_Step]_vars

C15_Witness ==
  /\ pc = "returned"
  /\ NSegs = MaxSegs
  /\ result = segments
  /\ \A n \in 1..NSegs : Len(segments[n].frames) = MaxFrames
  /\ \A n \in 1..NSegs : segments[n].wr["image"] # Unwritten

\* the number of stages that have completed on segment n
Progress(n) ==
  Cardinality({b \in 1..Len(calls) : SegOf(calls[b]) = n})
    - (IF err.seg = n THEN 1 ELSE 0)

Chosen(n) == Item(segments[n].frames, segments[n].keyframe_index)
Cropped(n) == Crop(Chosen(n), segments[n].speakers_bbox)
Styled(n) == transfer_style(Cropped(n))

\* C16: per segment, keyframe is frames[keyframe_index] after detection, the
\* crop of that after crop_keyframe and the style transfer of the crop after
\* transfer_keyframe_style; the image artifact is built once, last, from the
\* styled keyframe, and keyframe is not assigned after it; the fields appear
\* in the order Raw, FramesAttached, KeyframeChosen, SpeakerDetected, Cropped,
\* Styled, Packaged.
C16_KeyframeLifecycle ==
  \A n \in 1..NSegs :
    LET p == Progress(n)
        s == segments[n]
    IN /\ p \in 0..6
       /\ s.wr["frames"] # Unwritten <=> p >= 1
       /\ s.wr["keyframe_index"] # Unwritten <=> p >= 2
       /\ s.wr["speakers_bbox"] # Unwritten <=> p >= 3
       /\ s.wr["image"] # Unwritten <=> p >= 6
       /\ p < 2 => s.wr["keyframe"] = Unwritten
       /\ Writers(n, "keyframe") =
            {st \in 3..5 : st <= p \/ (st = 3 /\ s.wr["keyframe"] # Unwritten)}
       /\ Writers(n, "image") = {st \in {6} : st <= p}
       /\ s.wr["keyframe"] # Unwritten /\ p <= 3 => s.keyframe = Chosen(n)
       /\ p = 4 => s.keyframe = Cropped(n)
       /\ p >= 5 => s.keyframe = Styled(n)
       /\ p = 6 => s.image = [image_data_matrix |-> Styled(n),
                              image_subject |-> s.speakers_bbox]

C16_Witness ==
  /\ pc = "done"
  /\ NSegs = MaxSegs
  /\ segments[2].image.image_data_matrix.styled
  /\ segments[2].image.image_data_matrix = segments[2].keyframe
  /\ Shape(segments[2].keyframe)[1] < Shape(segments[2].frames[1])[1]
  /\ Shape(segments[2].keyframe)[2] < Shape(segments[2].frames[1])[2]

C18_State ==
  \A n \in 1..NSegs :
    /\ Writers(n, "speakers_bbox") \subseteq {3}
    /\ Writers(n, "speaker_location") \subseteq {3}
    /\ segments[n].wr["image"] # Unwritten =>
         /\ segments[n].image.image_subject = segments[n].speakers_bbox
         /\ segments[n].speakers_bbox \in DetectorBoxes(Shape(Chosen(n)))

C18_Step ==
  \A n \in 1..NSegs :
    segments[n].wr["speakers_bbox"] # Unwritten =>
      /\ segments'[n].speakers_bbox = segments[n].speakers_bbox
      /\ segments'[n].speaker_location = segments[n].speaker_location

\* C18: once detection has set them, no step (crop, style transfer,
\* packaging) changes speakers_bbox or speaker_location, and the bbox packaged
\* into the image artifact is the bbox detection returned for the un-cropped
\* keyframe, untranslated.
C18_BoxNotTranslated == []C18_State /\ [][C18_Step]_vars

C18_Witness ==
  /\ NSegs >= 1
  /\ segments[1].wr["image"] # Unwritten
  /\ segments[1].image.image_data_matrix.lo[1] >= 1
  /\ segments[1].image.image_subject.x = 2 * segments[1].image.image_data_matrix.lo[1]
  /\ segments[1].image.image_subject = segments[1].speakers_bbox

\* C19: a submit request without the form field "file" is answered 400 and
\* writes nothing; a request with the field stores exactly one file, under the
\* sanitized filename inside the upload folder, and is then answered with the
\* redirect.
C19_SubmitStoresOneFile ==
  http.phase = "responded" =>
    /\ "file" \notin http.files => (http.status = 400 /\ http.uploads = http.before)
    /\ "file" \in http.files =>
         LET name == secure_filename(http.filename)
         IN /\ http.status = 302
            /\ DOMAIN http.uploads = DOMAIN http.before \cup {name}
            /\ http.uploads[name] = "new"
            /\ \A n \in DOMAIN http.before \ {name} : http.uploads[n] = http.before[n]

====
